---- MODULE Spec2Model ----
(***************************************************************************)
(* Hand segmentation and finger counting (src/main.py).                    *)
(*                                                                         *)
(* The module models the background accumulator, the foreground segmenter, *)
(* the finger counter and the capture loop that drives them.  Images are   *)
(* small grids of 8-bit samples; the float64 background is kept as an      *)
(* exact binary fraction and rounded the way IEEE-754 doubles round.  The  *)
(* cv2 geometry primitives (findContours, convexHull) are not part of the  *)
(* repository: their results are inputs of the operations that call them.  *)
(***************************************************************************)
EXTENDS Integers, Sequences, FiniteSets, TLC

VARIABLES
    pc,          \* position of the main script: "loop", "crashed", "exited"
    num_frames,  \* main.py:126
    background,  \* main.py:6, None or <<grid of doubles>>
    hand,        \* main.py:158, result of the last segment call
    fingers,     \* main.py:170, unset (None) or <<count>>
    shown,       \* what the last loop iteration drew on the "Finger Count" window
    changes,     \* how often the camera's scene changed during calibration
    trace,       \* calls made by the last loop iteration, and call counters
    call         \* the last direct call of a function, with arguments and result

vars == <<pc, num_frames, background, hand, fingers, shown, changes, trace, call>>

----------------------------------------------------------------------------
(* Bounds of the model *)

\* the loop is followed up to this frame index
MaxFrames == 62
\* scene changes the camera may show while the background is being learnt
MaxSceneChanges == 2
\* direct calls of accumulate in SpecAccumulate
MaxAccCalls == 3
\* contours one findContours call may return
MaxContours == 2

\* pixels of the (tiny) region of interest
Cells == {1, 2}
\* 8-bit samples the camera produces
PixelValues == {11, 12, 37}
Frames == [Cells -> PixelValues]
\* the two scenes the camera shows in the capture loop: empty, and with a hand
CameraFrames == {[c \in Cells |-> 11], [c \in Cells |-> IF c = 1 THEN 37 ELSE 12]}
\* the frame indices at which the scene may change during calibration
SceneChangeFrames == {1, 30, 59}

----------------------------------------------------------------------------
(* Python's None, and a value that is present *)

None == <<>>
Some(x) == <<x>>

----------------------------------------------------------------------------
(* Doubles holding binary fractions, kept exactly: <<ip, f1, f2, f3>> is     *)
(* ip + f1/B + f2/B^2 + f3/B^3 with B = LimbBase.  Sixty halvings of an     *)
(* 8-bit sample need 59 fraction bits; three limbs hold 72.                 *)

RECURSIVE Pow2(_)
Pow2(k) == IF k = 0 THEN 1 ELSE 2 * Pow2(k - 1)

LimbBits == 8 * 3
LimbBase == Pow2(LimbBits)
Limbs == 1..4
FracBits == 3 * LimbBits

\* frame.copy().astype("float"): an integer sample widened to a double
FromInt(n) == <<n, 0, 0, 0>>

\* x + y
DAdd(x, y) ==
    LET s4 == x[4] + y[4]
        s3 == x[3] + y[3] + (s4 \div LimbBase)
        s2 == x[2] + y[2] + (s3 \div LimbBase)
    IN  <<x[1] + y[1] + (s2 \div LimbBase), s2 % LimbBase, s3 % LimbBase, s4 % LimbBase>>

\* x / 2
DHalf(x) ==
    [j \in Limbs |->
        (IF j = 1 THEN 0 ELSE (x[j - 1] % 2) * (LimbBase \div 2)) + (x[j] \div 2)]

RECURSIVE DShift(_, _)
DShift(x, k) == IF k = 0 THEN x ELSE DShift(DHalf(x), k - 1)

RECURSIVE DTimes(_, _)
DTimes(k, x) == IF k = 0 THEN FromInt(0) ELSE DAdd(x, DTimes(k - 1, x))

RECURSIVE BitLen(_)
BitLen(n) == IF n = 0 THEN 0 ELSE 1 + BitLen(n \div 2)

\* bits of a double's significand
MantissaBits == 53

\* fraction bit i of x (bit 1 is worth 1/2); bit 0 is the integer part's last
FracBit(x, i) ==
    IF i = 0 THEN x[1] % 2
    ELSE LET j == ((i - 1) \div LimbBits) + 2
             k == LimbBits - 1 - ((i - 1) % LimbBits)
         IN  (x[j] \div Pow2(k)) % 2

\* x with the fraction bits after the first keep bits cleared
Truncate(x, keep) ==
    [j \in Limbs |->
        IF j = 1 \/ keep >= (j - 1) * LimbBits THEN x[j]
        ELSE IF keep <= (j - 2) * LimbBits THEN 0
        ELSE LET low == Pow2((j - 1) * LimbBits - keep)
             IN  (x[j] \div low) * low]

\* one unit in fraction bit keep
Ulp(keep) ==
    [j \in Limbs |->
        IF keep = 0 THEN (IF j = 1 THEN 1 ELSE 0)
        ELSE IF j = ((keep - 1) \div LimbBits) + 2
             THEN Pow2(LimbBits - 1 - ((keep - 1) % LimbBits))
             ELSE 0]

\* fraction bits a double of this size holds
KeptBits(x) ==
    IF x[1] > 0 THEN MantissaBits - BitLen(x[1])
    ELSE IF x[2] > 0 THEN MantissaBits + (LimbBits - BitLen(x[2]))
    ELSE FracBits

\* IEEE-754 round-to-nearest, ties to even, of an exact value to a double
RoundDouble(x) ==
    LET keep == KeptBits(x)
    IN  IF keep >= FracBits \/ Truncate(x, keep) = x THEN x
        ELSE LET first  == FracBit(x, keep + 1)
                 sticky == Truncate(x, keep + 1) # x
                 up     == first = 1 /\ (sticky \/ FracBit(x, keep) = 1)
             IN  IF up THEN DAdd(Truncate(x, keep), Ulp(keep)) ELSE Truncate(x, keep)

\* astype("uint8") of a double in 0..255: the fraction is discarded
AsUint8(x) == x[1]

----------------------------------------------------------------------------
(* Background model, main.py:20-32 *)

\* a weight num / 2^shift; main.py:20 defaults to 0.5
Weight(num, shift) == [num |-> num, shift |-> shift]
DefaultWeight == Weight(1, 1)
Weights == {Weight(1, 1), Weight(1, 2), Weight(3, 2)}

\* a double times the weight w
Scale(x, w) == RoundDouble(DShift(DTimes(w.num, x), w.shift))

\* 1 - w
Complement(w) == Weight(Pow2(w.shift) - w.num, w.shift)

\* the weights of frame and background exchanged
accumulateWeighted_Swapped(src, dst, alpha) ==
    [c \in Cells |->
        RoundDouble(DAdd(Scale(FromInt(src[c]), Complement(alpha)),
                         Scale(dst[c], alpha)))]

\* cv2.accumulateWeighted(src, dst, alpha): dst = src*alpha + dst*(1 - alpha)
accumulateWeighted(src, dst, alpha) ==
    [c \in Cells |->
        RoundDouble(DAdd(Scale(FromInt(src[c]), alpha),
                         Scale(dst[c], Complement(alpha))))]

\* the background after accumulate(frame, accumulated_weight)
accumulate(bg, frame, accumulated_weight) ==
    IF bg = None
    THEN Some([c \in Cells |-> FromInt(frame[c])])
    ELSE Some(accumulateWeighted(frame, bg[1], accumulated_weight))

----------------------------------------------------------------------------
(* Contours: sequences of points <<x, y>>, as cv2 returns them *)

Abs(n) == IF n < 0 THEN -n ELSE n

Diamond   == << <<6, 2>>, <<10, 8>>, <<6, 14>>, <<2, 8>> >>
Triangle  == << <<0, 0>>, <<8, 0>>, <<0, 6>> >>
Rectangle == << <<0, 0>>, <<6, 0>>, <<6, 4>>, <<0, 4>> >>
Kite      == << <<1, 0>>, <<4, 3>>, <<1, 7>>, <<0, 3>> >>
Dot       == << <<5, 5>> >>
Speck     == << <<6, 12>> >>
\* outlines findContours may report for the thresholded image (all convex)
ContourShapes == {Diamond, Triangle, Rectangle, Kite, Dot, Speck}

\* contours found on the ring: CHAIN_APPROX_NONE keeps every boundary point
ArcTop    == << <<6, 3>> >>
ArcLeft   == << <<2, 7>>, <<2, 8>>, <<3, 9>> >>
ArcWrist  == << <<5, 10>>, <<6, 10>>, <<6, 11>>, <<5, 11>> >>
ArcLong   == << <<2, 4>>, <<3, 4>>, <<4, 4>>, <<5, 4>>, <<6, 4>>, <<7, 4>>, <<8, 4>> >>
ArcCentre == << <<5, 5>> >>
ArcHigh   == << <<3, 0>>, <<4, 0>> >>
RingShapes == {ArcTop, ArcLeft, ArcWrist, ArcLong, ArcCentre, ArcHigh}

\* sequences over S of length lo..hi
SeqsOf(S, lo, hi) == UNION {[1..n -> S] : n \in lo..hi}

\* cv2.findContours(image, RETR_EXTERNAL, ...): the results the library may
\* return; an image without foreground has no contour, any other has some
findContours(image, shapes) ==
    IF \A c \in Cells : image[c] = 0 THEN {<<>>}
    ELSE SeqsOf(shapes, 1, MaxContours)

\* cv2.contourArea(c) by the shoelace formula, kept as twice the area
RECURSIVE Shoelace(_, _)
Shoelace(c, i) ==
    IF i > Len(c) THEN 0
    ELSE LET p == c[i]
             q == c[(i % Len(c)) + 1]
         IN  (p[1] * q[2] - q[1] * p[2]) + Shoelace(c, i + 1)

contourArea(c) == Abs(Shoelace(c, 1))

\* Python's max(seq, key=key): the first element with the largest key
RECURSIVE MaxFrom(_, _, _)
MaxFrom(seq, i, best) ==
    IF i > Len(seq) THEN seq[best]
    ELSE IF contourArea(seq[i]) > contourArea(seq[best])
         THEN MaxFrom(seq, i + 1, i)
         ELSE MaxFrom(seq, i + 1, best)

\* the last element with the largest key
RECURSIVE MaxLastFrom(_, _, _)
MaxLastFrom(seq, i, best) ==
    IF i > Len(seq) THEN seq[best]
    ELSE IF contourArea(seq[i]) >= contourArea(seq[best])
         THEN MaxLastFrom(seq, i + 1, i)
         ELSE MaxLastFrom(seq, i + 1, best)

max_Last(seq) == MaxLastFrom(seq, 2, 1)

max(seq) == MaxFrom(seq, 2, 1)

\* cv2.convexHull(c) of a convex outline: its points, from any starting point
Rotate(c, k) == [i \in 1..Len(c) |-> c[((i + k - 1) % Len(c)) + 1]]
convexHull(c) == {Rotate(c, k) : k \in 0..(Len(c) - 1)}

SetMin(S) == CHOOSE m \in S : \A n \in S : m <= n
SetMax(S) == CHOOSE m \in S : \A n \in S : m >= n

\* cv2.boundingRect(c): <<x, y, w, h>>
boundingRect(c) ==
    LET xs == {c[i][1] : i \in 1..Len(c)}
        ys == {c[i][2] : i \in 1..Len(c)}
    IN  <<SetMin(xs), SetMin(ys),
          SetMax(xs) - SetMin(xs) + 1, SetMax(ys) - SetMin(ys) + 1>>

----------------------------------------------------------------------------
(* Foreground segmenter, main.py:34-54 *)

\* main.py:34
DefaultThreshold == 25
Thresholds == {DefaultThreshold, 13}

\* cv2.absdiff(background.astype("uint8"), frame)
absdiff(bg, frame) == [c \in Cells |-> Abs(AsUint8(bg[c]) - frame[c])]

\* a difference equal to the threshold taken as foreground
Binarize_AtLeast(diff, threshold) ==
    [c \in Cells |-> IF diff[c] >= threshold THEN 255 ELSE 0]

\* cv2.threshold(diff, threshold, 255, cv2.THRESH_BINARY)
Binarize(diff, threshold) ==
    [c \in Cells |-> IF diff[c] > threshold THEN 255 ELSE 0]

thresholded(bg, frame, threshold) == Binarize(absdiff(bg[1], frame), threshold)

\* segment(frame, threshold) when findContours returns contours
segment(bg, frame, threshold, contours) ==
    IF Len(contours) # 0
    THEN <<thresholded(bg, frame, threshold), max(contours)>>
    ELSE None

----------------------------------------------------------------------------
(* Finger counter, main.py:14-18 and 56-118 *)

\* numpy argmin / argmax over coordinate k of the hull: the first index
argmin(hull, k) ==
    SetMin({i \in 1..Len(hull) : \A j \in 1..Len(hull) : hull[i][k] <= hull[j][k]})
argmax(hull, k) ==
    SetMin({i \in 1..Len(hull) : \A j \in 1..Len(hull) : hull[i][k] >= hull[j][k]})

\* euclidean_distances, kept as squared distances (sqrt is increasing)
euclidean_distances(center_point, other_points) ==
    [i \in 1..Len(other_points) |->
        (center_point[1] - other_points[i][1]) * (center_point[1] - other_points[i][1])
      + (center_point[2] - other_points[i][2]) * (center_point[2] - other_points[i][2])]

\* int(0.8 * sqrt(d2)): the largest r with 25 r^2 <= 16 d2
RECURSIVE RadiusFrom(_, _)
RadiusFrom(d2, r) ==
    IF 25 * (r + 1) * (r + 1) <= 16 * d2 THEN RadiusFrom(d2, r + 1) ELSE r

\* np.pi as PiNum / PiDen: for a radius below 113 and an integer n,
\* PiNum * radius > 2 * PiDen * n exactly when pi * radius > 2 * n
PiNum == 355
PiDen == 113

\* main.py:71-81 for the four extreme points
CircleOf(top, bottom, left, right) ==
    LET cX == (left[1] + right[1]) \div 2
        cY == (top[2] + bottom[2]) \div 2
        distances == euclidean_distances(<<cX, cY>>, <<top, left, bottom, right>>)
        max_distance == SetMax({distances[i] : i \in 1..4})
    IN  [cX |-> cX, cY |-> cY, radius |-> RadiusFrom(max_distance, 0)]

\* the circle count_fingers draws: centre and radius (main.py:65-81)
Circle(hull) ==
    CircleOf(hull[argmin(hull, 2)], hull[argmax(hull, 2)],
             hull[argmin(hull, 1)], hull[argmax(hull, 1)])

\* the wrist line itself taken as above the wrist
out_of_wrist_AtLeast(cY, cnt) ==
    5 * cY >= 4 * (boundingRect(cnt)[2] + boundingRect(cnt)[4])

\* (cY + (cY * 0.25)) > (y + h)
out_of_wrist(cY, cnt) == 5 * cY > 4 * (boundingRect(cnt)[2] + boundingRect(cnt)[4])

\* the comparison turned around
limit_points_Inverted(radius, cnt) == PiNum * radius <= 2 * PiDen * Len(cnt)

\* ((2 * np.pi * radius) * 0.25) > cnt.shape[0]
limit_points(radius, cnt) == PiNum * radius > 2 * PiDen * Len(cnt)

RECURSIVE CountLoop(_, _, _, _)
CountLoop(circle, contours, i, count) ==
    IF i > Len(contours) THEN count
    ELSE IF out_of_wrist(circle.cY, contours[i]) /\ limit_points(circle.radius, contours[i])
         THEN CountLoop(circle, contours, i + 1, count + 1)
         ELSE CountLoop(circle, contours, i + 1, count)

\* count_fingers when convexHull returns hull and the ring's contours are ring
count_fingers(hull, ring) == CountLoop(Circle(hull), ring, 1, 0)

\* contours cv2.findContours may report on the ring image (main.py:85-95)
ringContours(shapes) == SeqsOf(shapes, 0, MaxContours)

----------------------------------------------------------------------------
(* The capture loop, main.py:121-196 *)

\* one calibration frame too few
CalibrationFrames_OffByOne == 60 - 1

\* main.py:148
CalibrationFrames == 60

\* the branch taken one frame too early, or one frame too long
InCalibration_Short(n) == n < CalibrationFrames - 1
InCalibration_Long(n) == n <= CalibrationFrames

\* if num_frames < 60
InCalibration(n) == n < CalibrationFrames

\* outlines and ring arcs the library reports in the capture loop
SceneShapes == {Diamond, Dot}
SceneRings == {<<>>, <<ArcTop>>, <<ArcWrist>>, <<ArcTop, ArcWrist, ArcCentre>>}

\* calls of the three functions; copy counts accumulate calls that took the
\* "background is None" branch
NoCalls == [accumulate |-> 0, copy |-> 0, segment |-> 0, count_fingers |-> 0]

SessionStart ==
    /\ pc = "loop"
    /\ num_frames = 0
    /\ hand = None
    /\ fingers = None
    /\ shown = [text |-> "none", count |-> None, contour |-> None]
    /\ changes = 0
    /\ trace = [path |-> "start", index |-> 0, gray |-> None, calls |-> NoCalls,
                total |-> NoCalls, hull |-> None, ring |-> None, absent |-> FALSE]

Init ==
    /\ SessionStart
    /\ background = None
    /\ call = [fn |-> "none"]

\* cam.read() returns (False, None): cv2.flip(None, 1) raises, nothing catches it
CaptureFailed ==
    /\ pc = "loop"
    /\ pc' = "crashed"
    /\ trace' = [trace EXCEPT !.path = "failed", !.calls = NoCalls]
    /\ UNCHANGED <<num_frames, background, hand, fingers, shown, changes, call>>

\* cv2.waitKey(1) & 0xFF == 27 ends the loop
AfterKey(esc) == IF esc THEN "exited" ELSE "loop"

Bump(total, calls) ==
    [f \in DOMAIN total |-> total[f] + calls[f]]

\* one iteration with num_frames < 60 (main.py:131-152, 179-192)
CalibrationFrame ==
    /\ pc = "loop"
    /\ InCalibration(num_frames)
    /\ num_frames < MaxFrames
    /\ \E gray \in CameraFrames, esc \in BOOLEAN :
        /\ \/ trace.gray = None /\ changes' = changes
           \/ trace.gray = Some(gray) /\ changes' = changes
           \/ trace.gray # None /\ trace.gray # Some(gray)
              /\ num_frames \in SceneChangeFrames
              /\ changes < MaxSceneChanges /\ changes' = changes + 1
        /\ background' = accumulate(background, gray, DefaultWeight)
        /\ shown' = [text |-> "WAIT! GETTING BACKGROUND AVG.", count |-> None,
                     contour |-> None]
        /\ num_frames' = num_frames + 1
        /\ pc' = AfterKey(esc)
        /\ LET calls == [NoCalls EXCEPT !.accumulate = 1,
                                        !.copy = IF background = None THEN 1 ELSE 0]
           IN  trace' = [path |-> "calibrate", index |-> num_frames, gray |-> Some(gray),
                         calls |-> calls, total |-> Bump(trace.total, calls),
                         hull |-> None, ring |-> None, absent |-> FALSE]
    /\ UNCHANGED <<hand, fingers, call>>

\* the previous count shown again on a frame without a hand
Detection_StaleCount(h, count, oldFingers) ==
    IF h # None
    THEN [fingers |-> Some(count),
          shown   |-> [text |-> "count", count |-> Some(count), contour |-> Some(h[2])],
          calls   |-> [NoCalls EXCEPT !.segment = 1, !.count_fingers = 1]]
    ELSE [fingers |-> oldFingers,
          shown   |-> [text |-> "count", count |-> oldFingers, contour |-> None],
          calls   |-> [NoCalls EXCEPT !.segment = 1]]

\* what the detection branch leaves behind (main.py:158-176); count is the
\* value count_fingers returns when a hand was found
Detection(h, count, oldFingers) ==
    IF h # None
    THEN [fingers |-> Some(count),
          shown   |-> [text |-> "count", count |-> Some(count), contour |-> Some(h[2])],
          calls   |-> [NoCalls EXCEPT !.segment = 1, !.count_fingers = 1]]
    ELSE [fingers |-> oldFingers,
          shown   |-> [text |-> "plain", count |-> None, contour |-> None],
          calls   |-> [NoCalls EXCEPT !.segment = 1]]

\* one iteration with num_frames >= 60 (main.py:131-145, 154-192)
DetectionFrame ==
    /\ pc = "loop"
    /\ ~InCalibration(num_frames)
    /\ num_frames < MaxFrames
    /\ \E gray \in CameraFrames :
       \E contours \in findContours(thresholded(background, gray, DefaultThreshold),
                                    SceneShapes) :
       \E h \in {segment(background, gray, DefaultThreshold, contours)} :
       \E hull \in (IF h # None THEN convexHull(h[2]) ELSE {None}),
          ring \in (IF h # None THEN SceneRings ELSE {<<>>}) :
       \E count \in {IF h # None THEN count_fingers(hull, ring) ELSE 0} :
       \E d \in {Detection(h, count, fingers)}, esc \in BOOLEAN :
           /\ hand' = h
           /\ fingers' = d.fingers
           /\ shown' = d.shown
           /\ trace' = [path |-> "detect", index |-> num_frames, gray |-> Some(gray),
                        calls |-> d.calls, total |-> Bump(trace.total, d.calls),
                        hull |-> IF h # None THEN Some(hull) ELSE None,
                        ring |-> IF h # None THEN Some(ring) ELSE None,
                        absent |-> (trace.path = "detect" /\ hand = None)]
           /\ pc' = AfterKey(esc)
    /\ num_frames' = num_frames + 1
    /\ UNCHANGED <<background, changes, call>>

Next ==
    \/ CaptureFailed
    \/ CalibrationFrame
    \/ DetectionFrame

Spec == Init /\ [][Next]_vars

----------------------------------------------------------------------------
(* Direct calls of accumulate, starting without a background *)

InitAccumulate ==
    /\ SessionStart
    /\ background = None
    /\ call = [fn |-> "none", n |-> 0]

AccumulateCall ==
    /\ call.n < MaxAccCalls
    /\ \E frame \in Frames, weight \in Weights :
        /\ background' = accumulate(background, frame, weight)
        /\ call' = [fn |-> "accumulate", n |-> call.n + 1, before |-> background,
                    frame |-> frame, weight |-> weight,
                    first |-> IF call.n = 0 THEN frame ELSE call.first]
    /\ UNCHANGED <<pc, num_frames, hand, fingers, shown, changes, trace>>

NextAccumulate == AccumulateCall

SpecAccumulate == InitAccumulate /\ [][NextAccumulate]_vars

----------------------------------------------------------------------------
(* Direct calls of segment, on a background built by two accumulate calls *)

InitSegment ==
    /\ SessionStart
    /\ \E f1 \in Frames, f2 \in Frames :
        background = accumulate(accumulate(None, f1, DefaultWeight), f2, DefaultWeight)
    /\ call = [fn |-> "none"]

SegmentCall ==
    /\ call.fn = "none"
    /\ \E frame \in Frames, threshold \in Thresholds :
       \E contours \in findContours(thresholded(background, frame, threshold),
                                    ContourShapes) :
        call' = [fn |-> "segment", frame |-> frame, threshold |-> threshold,
                 thresholded |-> thresholded(background, frame, threshold),
                 contours |-> contours,
                 ret |-> segment(background, frame, threshold, contours)]
    /\ UNCHANGED <<pc, num_frames, background, hand, fingers, shown, changes, trace>>

NextSegment == SegmentCall

SpecSegment == InitSegment /\ [][NextSegment]_vars

----------------------------------------------------------------------------
(* Direct calls of count_fingers *)

InitCount ==
    /\ SessionStart
    /\ background = None
    /\ call = [fn |-> "none"]

CountFingersCall ==
    /\ call.fn = "none"
    /\ \E hand_segment \in ContourShapes :
       \E hull \in convexHull(hand_segment), ring \in ringContours(RingShapes) :
        call' = [fn |-> "count_fingers", hand_segment |-> hand_segment,
                 hull |-> hull, ring |-> ring, circle |-> Circle(hull),
                 ret |-> count_fingers(hull, ring)]
    /\ UNCHANGED <<pc, num_frames, background, hand, fingers, shown, changes, trace>>

NextCount == CountFingersCall

SpecCount == InitCount /\ [][NextCount]_vars

----------------------------------------------------------------------------
(* Properties of the capture loop (checked under Spec) *)

\* C1: frames 0..59 are calibration frames: each is passed to accumulate and
\* never to segment; every frame from index 60 on is passed to segment and
\* never to accumulate, with or without a hand; once segment has been called
\* no later frame is a calibration frame.
C1_CalibrateThenDetect ==
    /\ trace.path \in {"calibrate", "detect"} => num_frames = trace.index + 1
    /\ trace.path = "calibrate" =>
          /\ trace.index \in 0..59
          /\ trace.calls.accumulate = 1
          /\ trace.calls.segment = 0
    /\ trace.path = "detect" =>
          /\ trace.index >= 60
          /\ trace.calls.segment = 1
          /\ trace.calls.accumulate = 0
    /\ trace.total.segment > 0 => trace.path # "calibrate"
    /\ trace.total.accumulate + trace.total.segment = num_frames
    /\ num_frames <= 60 => trace.total.segment = 0

\* frame 60 was the first detection frame, right after the 60th calibration
\* frame, and no hand was in it
C1_Witness ==
    /\ trace.path = "detect"
    /\ trace.index = 60
    /\ hand = None
    /\ trace.total.accumulate = 60

\* C2: a failed capture is a no-op of the loop: the script does not crash and
\* the background and the finger count stay as they were.
C2_FailedCaptureIsNoOp ==
    trace.path = "failed" => pc = "loop"

\* C4: the background is written only by calibration frames: a step that
\* changes it is a calibration step of a frame below 60, no step from frame
\* 60 on changes it, and once set it is never None again.
C4_BackgroundWrittenOnlyInCalibration ==
    [][ /\ (background' # background =>
                trace'.path = "calibrate" /\ trace'.index < 60)
        /\ (num_frames >= 60 => background' = background)
        /\ (trace'.calls.segment > 0 \/ trace'.calls.count_fingers > 0
                => background' = background)
        /\ (background # None => background' # None) ]_vars

\* a hand was segmented and counted on frame 61 against a background that
\* holds a fraction
C4_Witness ==
    /\ trace.path = "detect"
    /\ trace.index = 61
    /\ hand # None
    /\ \E c \in Cells : background[1][c] # FromInt(AsUint8(background[1][c]))

\* fingers counted independently of the counting loop: the ring contours that
\* pass both tests, for the circle of the hull's extreme points
YPlusH(cnt) == SetMax({cnt[i][2] : i \in 1..Len(cnt)}) + 1

FirstWith(hull, k, v) ==
    hull[CHOOSE i \in 1..Len(hull) :
            hull[i][k] = v /\ \A j \in 1..(i - 1) : hull[j][k] # v]

Dist2(p, q) == (p[1] - q[1]) * (p[1] - q[1]) + (p[2] - q[2]) * (p[2] - q[2])

ExpectedCircle(hull) ==
    LET xs == {hull[i][1] : i \in 1..Len(hull)}
        ys == {hull[i][2] : i \in 1..Len(hull)}
        cX == (SetMin(xs) + SetMax(xs)) \div 2
        cY == (SetMin(ys) + SetMax(ys)) \div 2
        extremes == {FirstWith(hull, 2, SetMin(ys)), FirstWith(hull, 2, SetMax(ys)),
                     FirstWith(hull, 1, SetMin(xs)), FirstWith(hull, 1, SetMax(xs))}
        far == SetMax({Dist2(<<cX, cY>>, p) : p \in extremes})
    IN  [cX |-> cX, cY |-> cY, far |-> far, extremes |-> extremes]

\* r = floor(0.8 * sqrt(far))
IsRadius(r, far) == r >= 0 /\ 25 * r * r <= 16 * far /\ 16 * far < 25 * (r + 1) * (r + 1)

Qualifies(cnt, cY, r) == 5 * cY > 4 * YPlusH(cnt) /\ 355 * r > 226 * Len(cnt)

ExpectedCount(hull, ring) ==
    LET e == ExpectedCircle(hull)
        r == CHOOSE r \in 0..e.far : IsRadius(r, e.far)
    IN  Cardinality({i \in 1..Len(ring) : Qualifies(ring[i], e.cY, r)})

\* C8: on a detection frame without a hand segment count_fingers is not
\* called, no count and no contour are shown, the frame counter advances and
\* the loop goes on; a count is shown exactly when segment returned a hand for
\* this frame, and it is the count of this frame's contours.
C8_AbsentHandIsNotFatal ==
    trace.path = "detect" =>
        /\ num_frames = trace.index + 1
        /\ pc \in {"loop", "exited"}
        /\ trace.absent => trace.index > 60
        /\ (shown.count # None) <=> (hand # None)
        /\ hand = None =>
              /\ trace.calls.count_fingers = 0
              /\ shown.contour = None
        /\ hand # None =>
              /\ trace.calls.count_fingers = 1
              /\ shown.contour = Some(hand[2])
              /\ shown.count = Some(ExpectedCount(trace.hull[1], trace.ring[1]))
              /\ fingers = shown.count

\* a frame without a hand was followed by a frame whose fingers were counted
C8_Witness ==
    /\ trace.path = "detect"
    /\ trace.absent
    /\ hand # None
    /\ shown.count = Some(1)

\* C10: when segment is called the background is set: before the first
\* segment call accumulate ran exactly 60 times, once copying the frame and 59
\* times averaging.
C10_BackgroundReadyForSegment ==
    /\ trace.total.segment > 0 =>
          /\ background # None
          /\ trace.total.accumulate = 60
          /\ trace.total.copy = 1
    /\ (pc = "loop" /\ num_frames >= 60) => background # None
    /\ (trace.path = "calibrate" /\ trace.index = 0) <=>
          (trace.path = "calibrate" /\ trace.calls.copy = 1)

\* segment has just been called for the first time
C10_Witness ==
    /\ trace.total.segment = 1
    /\ trace.total.accumulate = 60
    /\ trace.total.copy = 1
    /\ hand # None

----------------------------------------------------------------------------
(* Properties of accumulate (checked under SpecAccumulate) *)

\* fraction bits the checked backgrounds can hold: two per call
ScaleBits == 2 * MaxAccCalls

\* x * 2^ScaleBits, for an x with at most ScaleBits fraction bits
Scaled(x) == x[1] * Pow2(ScaleBits) + (x[2] \div Pow2(LimbBits - ScaleBits))

IsExact(x) == x[2] % Pow2(LimbBits - ScaleBits) = 0 /\ x[3] = 0 /\ x[4] = 0

\* the weight in quarters
Quarters(w) == w.num * Pow2(2 - w.shift)

\* C3: the first accumulate call copies the frame; every later call replaces
\* each cell B by (1 - weight) * B + weight * F; after a first frame F1 and a
\* second call with weight 0.5 and frame F2 each cell is 0.5*F1 + 0.5*F2.
C3_CopyThenWeightedAverage ==
    call.fn = "accumulate" =>
        /\ background # None
        /\ \A c \in Cells : IsExact(background[1][c])
        /\ call.before = None =>
              \A c \in Cells : background[1][c] = <<call.frame[c], 0, 0, 0>>
        /\ call.before # None =>
              \A c \in Cells :
                 4 * Scaled(background[1][c]) =
                      (4 - Quarters(call.weight)) * Scaled(call.before[1][c])
                    + Quarters(call.weight) * call.frame[c] * Pow2(ScaleBits)
        /\ (call.n = 2 /\ call.weight = [num |-> 1, shift |-> 1]) =>
              \A c \in Cells :
                 2 * Scaled(background[1][c]) =
                      (call.first[c] + call.frame[c]) * Pow2(ScaleBits)

\* two calls, the second with weight 0.5 on a different frame: a cell holds a
\* half
C3_Witness ==
    /\ call.fn = "accumulate"
    /\ call.n = 2
    /\ call.weight = [num |-> 1, shift |-> 1]
    /\ \E c \in Cells : call.first[c] = 11 /\ call.frame[c] = 12
                        /\ background[1][c] = <<11, LimbBase \div 2, 0, 0>>

----------------------------------------------------------------------------
(* Properties of segment (checked under SpecSegment) *)

\* the background cell times two (the checked backgrounds hold halves)
Twice(x) == 2 * x[1] + (x[2] \div (LimbBase \div 2))

\* the fraction discarded
Floor(x) == Twice(x) \div 2

\* the nearest integer, a half going to the even neighbour
Nearest(x) ==
    IF Twice(x) % 2 = 0 THEN Twice(x) \div 2
    ELSE IF (Twice(x) \div 2) % 2 = 0 THEN Twice(x) \div 2 ELSE (Twice(x) \div 2) + 1

\* C5: segment returns None exactly when findContours returned no contour;
\* otherwise it returns the mask and a contour of the largest area, the first
\* such contour in the order findContours returned them.
C5_LargestContourOrAbsent ==
    call.fn = "segment" =>
        /\ (call.ret = None) <=> (Len(call.contours) = 0)
        /\ call.ret # None =>
              /\ call.ret[1] = call.thresholded
              /\ \E i \in 1..Len(call.contours) :
                    /\ call.ret[2] = call.contours[i]
                    /\ \A j \in 1..Len(call.contours) :
                          contourArea(call.contours[j]) <= contourArea(call.contours[i])
                    /\ \A j \in 1..(i - 1) :
                          contourArea(call.contours[j]) < contourArea(call.contours[i])

\* two different contours of the same, largest area: the first was returned
C5_Witness ==
    /\ call.fn = "segment"
    /\ call.contours = <<Triangle, Rectangle>>
    /\ contourArea(Triangle) = contourArea(Rectangle)
    /\ contourArea(Triangle) > 0
    /\ call.ret # None
    /\ call.ret[2] = Triangle

\* C6 as stated: a cell is foreground (255) exactly when the difference
\* between the background value rounded to the nearest integer and the frame
\* value is greater than the threshold, else 0.
C6_RoundedDifferenceAboveThreshold ==
    call.fn = "segment" =>
        \A c \in Cells :
            call.thresholded[c] =
                IF Abs(Nearest(background[1][c]) - call.frame[c]) > call.threshold
                THEN 255 ELSE 0

\* C6 amended: a cell is foreground (255) exactly when the difference between
\* the background value with its fraction discarded and the frame value is
\* strictly greater than the threshold, else 0; a difference equal to the
\* threshold is background.
C6_TruncatedDifferenceAboveThreshold ==
    call.fn = "segment" =>
        \A c \in Cells :
            /\ call.thresholded[c] =
                  IF Abs(Floor(background[1][c]) - call.frame[c]) > call.threshold
                  THEN 255 ELSE 0
            /\ Abs(Floor(background[1][c]) - call.frame[c]) = call.threshold
                  => call.thresholded[c] = 0

\* one cell differs by exactly the default threshold and is background, the
\* other holds 11.5, differs by 26 once the half is dropped, and is foreground
C6_Witness ==
    /\ call.fn = "segment"
    /\ call.threshold = 25
    /\ \E c \in Cells :
          /\ background[1][c] = <<12, 0, 0, 0>>
          /\ call.frame[c] = 37
          /\ call.thresholded[c] = 0
    /\ \E c \in Cells :
          /\ background[1][c] = <<11, LimbBase \div 2, 0, 0>>
          /\ call.frame[c] = 37
          /\ call.thresholded[c] = 255

----------------------------------------------------------------------------
(* Properties of count_fingers (checked under SpecCount) *)

\* C7: count_fingers returns the number of ring contours c with
\* cY + 0.25*cY > y + h and 0.25*circumference > pointCount(c), where cX, cY
\* are the floor-divided midpoints of the hull's extremes, radius is
\* floor(0.8 * the largest distance from (cX, cY) to the four extremes) and
\* circumference is 2*pi*radius; the result is between 0 and the number of
\* ring contours.
C7_CountsQualifyingRingContours ==
    call.fn = "count_fingers" =>
        LET e == ExpectedCircle(call.hull)
        IN  /\ call.circle.cX = e.cX
            /\ call.circle.cY = e.cY
            /\ IsRadius(call.circle.radius, e.far)
            /\ call.ret = Cardinality({i \in 1..Len(call.ring) :
                              Qualifies(call.ring[i], e.cY, call.circle.radius)})
            /\ call.ret \in 0..Len(call.ring)

\* of two ring contours one passed both tests and one touched the wrist line
C7_Witness ==
    /\ call.fn = "count_fingers"
    /\ call.hand_segment = Diamond
    /\ call.ring = <<ArcLeft, ArcTop>>
    /\ call.circle = [cX |-> 6, cY |-> 8, radius |-> 4]
    /\ call.ret = 1

\* C9: for a hull whose four extremes all coincide with the centre the radius
\* is 0 and count_fingers returns 0, whatever the ring contours are.
C9_DegenerateHullCountsZero ==
    (call.fn = "count_fingers"
        /\ ExpectedCircle(call.hull).extremes
              = {<<ExpectedCircle(call.hull).cX, ExpectedCircle(call.hull).cY>>}) =>
        /\ call.circle.radius = 0
        /\ call.ret = 0

\* a one-point hull with ring contours above the wrist line
C9_Witness ==
    /\ call.fn = "count_fingers"
    /\ call.hull = Dot
    /\ call.ring = <<ArcTop, ArcCentre>>
    /\ out_of_wrist(call.circle.cY, ArcTop)
    /\ call.ret = 0

====
